---- MODULE Spec2Model ----
(***************************************************************************)
(* Flocking simulation of birds/src/main.rs: a pool of agents, each with a *)
(* position and a velocity, advanced once per frame by `update`.            *)
(*                                                                           *)
(* Numbers.  The program computes in f32.  The model computes in fixed       *)
(* point: a finite float is an integer count of 1/Scale units, every         *)
(* operation rounds its exact result to the nearest unit, and NaN is a       *)
(* separate value that poisons arithmetic and fails every comparison, as in  *)
(* IEEE 754.                                                                 *)
(***************************************************************************)
EXTENDS Integers, Sequences, FiniteSets, TLC

\* Resolution of the fixed-point numbers: units per 1.0.
Scale == 500

\* Number of update callbacks (frames) explored.
MaxTicks == 2

\* Population of the pool.  The program's value is 200 (main.rs:21); the model
\* explores a reduced population.
NUM_AGENTS == 2

(***************************************************************************)
(* Scalar arithmetic                                                         *)
(***************************************************************************)
Abs(n) == IF n < 0 THEN -n ELSE n

Max(a, b) == IF a >= b THEN a ELSE b

Min(a, b) == IF a <= b THEN a ELSE b

\* n / d rounded to the nearest integer (d > 0).
Round(n, d) == (2 * n + d) \div (2 * d)

RECURSIVE SqrtSearch(_, _, _)
SqrtSearch(n, lo, hi) ==
    IF lo >= hi THEN lo
    ELSE LET mid == (lo + hi + 1) \div 2
         IN  IF mid * mid <= n THEN SqrtSearch(n, mid, hi)
                               ELSE SqrtSearch(n, lo, mid - 1)

\* Square root of n >= 0 rounded to the nearest integer.
Sqrt(n) ==
    LET r == SqrtSearch(n, 0, 46340)
    IN  IF n - r * r > r THEN r + 1 ELSE r

\* A finite float holding n units, and the NaN.
F(n) == [nan |-> FALSE, v |-> n]

NaN == [nan |-> TRUE, v |-> 0]

fadd(a, b) == IF a.nan \/ b.nan THEN NaN ELSE F(a.v + b.v)

fsub(a, b) == IF a.nan \/ b.nan THEN NaN ELSE F(a.v - b.v)

fneg(a) == IF a.nan THEN NaN ELSE F(-a.v)

\* Product of two floats.
fmul(a, b) == IF a.nan \/ b.nan THEN NaN ELSE F(Round(a.v * b.v, Scale))

\* Product of a float and a constant factor given as <<numerator, denominator>>.
fmulc(a, c) == IF a.nan THEN NaN ELSE F(Round(a.v * c[1], c[2]))

\* Quotient of a float and a count (`n as f32`).
fdivn(a, n) == IF a.nan THEN NaN ELSE F(Round(a.v, n))

\* Comparisons: false as soon as one side is NaN.
flt(a, b) == ~a.nan /\ ~b.nan /\ a.v < b.v

fgt(a, b) == ~a.nan /\ ~b.nan /\ a.v > b.v

(***************************************************************************)
(* Vec2 (glam)                                                               *)
(***************************************************************************)
vec2(x, y) == [x |-> x, y |-> y]

Vec2_default == vec2(F(0), F(0))

IsNaNVec(a) == a.x.nan \/ a.y.nan

vadd(a, b) == vec2(fadd(a.x, b.x), fadd(a.y, b.y))

vsub(a, b) == vec2(fsub(a.x, b.x), fsub(a.y, b.y))

vmul(a, s) == vec2(fmul(a.x, s), fmul(a.y, s))

vmulc(a, c) == vec2(fmulc(a.x, c), fmulc(a.y, c))

vdivn(a, n) == vec2(fdivn(a.x, n), fdivn(a.y, n))

\* Vec2::perp: the vector rotated by 90 degrees.
perp(a) == vec2(fneg(a.y), a.x)

\* Vec2::length: sqrt(x*x + y*y).
length(a) ==
    IF IsNaNVec(a) THEN NaN ELSE F(Sqrt(a.x.v * a.x.v + a.y.v * a.y.v))

\* Vec2::distance: (self - rhs).length().  Once one coordinate differs by
\* DETECTION_RADIUS or more the distance is at least that much and the program
\* only compares it with DETECTION_RADIUS; the larger coordinate difference
\* stands for it there, which keeps the squares within 32-bit integers.
distance(a, b) ==
    LET d == vsub(a, b)
    IN  IF IsNaNVec(d) THEN NaN
        ELSE IF Abs(d.x.v) >= 60 * Scale \/ Abs(d.y.v) >= 60 * Scale
             THEN F(Max(Abs(d.x.v), Abs(d.y.v)))
             ELSE length(d)

\* Vec2::normalize: self * (1.0 / self.length()).  For the zero vector the
\* reciprocal is +inf and 0.0 * inf is NaN in both components.
normalize(a) ==
    LET len == length(a)
    IN  IF len.nan \/ len.v = 0 THEN vec2(NaN, NaN)
        ELSE vec2(F(Round(a.x.v * Scale, len.v)), F(Round(a.y.v * Scale, len.v)))

\* Vec2::lerp: self + (rhs - self) * s, s a constant factor.
lerp(a, rhs, s) == vadd(a, vmulc(vsub(rhs, a), s))

(***************************************************************************)
(* Agent                                                                     *)
(***************************************************************************)
SPEED == F((3 * Scale) \div 2)

DETECTION_RADIUS == F(60 * Scale)

MIN_DISTANCE == F(30 * Scale)

MIN_DISTANCE_INVERSE == <<Scale, MIN_DISTANCE.v>>

MIN_DISTANCE_FACTOR == <<3, 10>>

AVERAGE_VELOCITY_FACTOR == <<1, 100>>

AVERAGE_POSITION_FACTOR == <<1, 10000>>

\* The window rectangle of a w x h window: centred on the origin.
window_rect(w, h) ==
    [left |-> -(w \div 2), right |-> w - (w \div 2),
     bottom |-> -(h \div 2), top |-> h - (h \div 2)]

\* Window sizes the platform reports: the start-up size, a smaller window and a
\* window of no width.
WindowSizes ==
    {<<400 * Scale, 240 * Scale>>, <<200 * Scale, 120 * Scale>>,
     <<0, 240 * Scale>>}

StartSize == <<400 * Scale, 240 * Scale>>

\* Draws of random_range enumerated by the model: coordinates of a position and
\* coordinates of a heading.
CoordSamples == {119 * Scale, 159 * Scale, 199 * Scale}

UnitSamples == {0, Scale \div 2}

\* nannou's random_range(min, max): orders its arguments and draws from the
\* half-open range.
random_range(min, max, samples) ==
    {s \in samples : Min(min, max) <= s /\ s < Max(min, max)}

\* Agent::new with its four draws made explicit.
Agent_new(px, py, hx, hy) ==
    [position |-> vec2(F(px), F(py)),
     velocity |-> vmul(normalize(vec2(F(hx), F(hy))), SPEED)]

\* The agents Agent::new can return for a window rectangle.
NewAgents(rect) ==
    {Agent_new(px, py, hx, hy) :
        px \in random_range(rect.left, rect.right, CoordSamples),
        py \in random_range(rect.top, rect.bottom, CoordSamples),
        hx \in random_range(-Scale, Scale, UnitSamples),
        hy \in random_range(-Scale, Scale, UnitSamples)}

\* Faulty variant of Agent_step: a coordinate past an edge stops on that edge.
Agent_step_clamp(self, rect) ==
    LET p == vadd(self.position, self.velocity)
        x == IF flt(p.x, F(rect.left)) THEN F(rect.left)
             ELSE IF fgt(p.x, F(rect.right)) THEN F(rect.right)
             ELSE p.x
        y == IF fgt(p.y, F(rect.top)) THEN F(rect.top)
             ELSE IF flt(p.y, F(rect.bottom)) THEN F(rect.bottom)
             ELSE p.y
    IN  [self EXCEPT !.position = vec2(x, y)]

\* Agent::step: translate, then wrap around the window.
Agent_step(self, rect) ==
    LET p == vadd(self.position, self.velocity)
        x == IF flt(p.x, F(rect.left)) THEN F(rect.right)
             ELSE IF fgt(p.x, F(rect.right)) THEN F(rect.left)
             ELSE p.x
        y == IF fgt(p.y, F(rect.top)) THEN F(rect.bottom)
             ELSE IF flt(p.y, F(rect.bottom)) THEN F(rect.top)
             ELSE p.y
    IN  [self EXCEPT !.position = vec2(x, y)]

\* The push away from a close neighbour, added to the velocity accumulator.
SeparationPush(average_velocity, dist) ==
    vmulc(vmul(vmulc(perp(average_velocity), MIN_DISTANCE_FACTOR), dist),
          MIN_DISTANCE_INVERSE)

\* The locals of the neighbour loop before its first iteration.
NoNeighbors ==
    [average_position |-> Vec2_default, average_velocity |-> Vec2_default,
     num_neighbors |-> 0]

\* The neighbour test of the loop.
InRange(dist) == flt(dist, DETECTION_RADIUS) /\ fgt(dist, F(0))

\* One iteration of the neighbour loop.
NeighborStep(position, acc, other) ==
    LET dist == distance(position, other.position)
        summed == vadd(acc.average_velocity, other.velocity)
    IN  IF InRange(dist)
        THEN [average_velocity |->
                  IF flt(dist, MIN_DISTANCE)
                  THEN vadd(summed, SeparationPush(summed, dist))
                  ELSE summed,
              average_position |-> vadd(acc.average_position, other.position),
              num_neighbors |-> acc.num_neighbors + 1]
        ELSE acc

\* The neighbour loop over agents[k..].
RECURSIVE NeighborLoop(_, _, _, _)
NeighborLoop(position, pool, k, acc) ==
    IF k > Len(pool) THEN acc
    ELSE NeighborLoop(position, pool, k + 1, NeighborStep(position, acc, pool[k]))

\* Agent::update with its locals: the agent after step, the loop's sums, the
\* averages, the velocity before it is normalized and the agent it leaves.
Agent_update_locals(self, rect, pool) ==
    LET stepped == Agent_step(self, rect)
        sums == NeighborLoop(stepped.position, pool, 1, NoNeighbors)
        n == sums.num_neighbors
        average_position == IF n > 0 THEN vdivn(sums.average_position, n)
                                     ELSE sums.average_position
        average_velocity == IF n > 0 THEN vdivn(sums.average_velocity, n)
                                     ELSE sums.average_velocity
        aligned == lerp(stepped.velocity, average_velocity, AVERAGE_VELOCITY_FACTOR)
        pull == vmulc(vsub(average_position, stepped.position),
                      AVERAGE_POSITION_FACTOR)
        blended == vadd(aligned, pull)
    IN  [position |-> stepped.position,
         num_neighbors |-> n,
         sums |-> sums,
         average_position |-> average_position,
         average_velocity |-> average_velocity,
         pull |-> pull,
         blended |-> blended,
         agent |-> [position |-> stepped.position,
                    velocity |-> vmul(normalize(blended), SPEED)]]

Agent_update(self, rect, pool) == Agent_update_locals(self, rect, pool).agent

(***************************************************************************)
(* The pool and the update callback                                          *)
(***************************************************************************)
VARIABLES
    agents,           \* Model.agents
    previous_agents,  \* the clone taken by the running (or last) update
    win_rect,         \* app.window_rect() of the running (or last) callback
    pc,               \* "idle" between callbacks, "for_each" inside update
    idx,              \* the index for_each visits next
    ticks,            \* update callbacks started
    locals            \* the locals of the latest Agent::update call

vars == <<agents, previous_agents, win_rect, pc, idx, ticks, locals>>

NoLocals == [self |-> 0]

\* Faulty variant of for_each_step: the agent reads the live pool, not the clone.
for_each_step_live(pool, previous, i, rect) ==
    [pool EXCEPT ![i] = Agent_update(pool[i], rect, pool)]

\* Faulty variant of for_each_step: the updated agent is pushed onto the pool.
for_each_step_push(pool, previous, i, rect) ==
    Append(pool, Agent_update(pool[i], rect, previous))

\* One visit of the for_each closure: agent i is updated in place against the
\* clone.
for_each_step(pool, previous, i, rect) ==
    [pool EXCEPT ![i] = Agent_update(pool[i], rect, previous)]

\* model(): NUM_AGENTS agents from Agent::new for the start-up window.
Init ==
    /\ win_rect = window_rect(StartSize[1], StartSize[2])
    /\ agents \in [1..NUM_AGENTS -> NewAgents(win_rect)]
    /\ previous_agents = agents
    /\ pc = "idle"
    /\ idx = 0
    /\ ticks = 0
    /\ locals = NoLocals

\* update(): the pool is cloned and for_each starts.
update_clone ==
    /\ pc = "idle"
    /\ ticks < MaxTicks
    /\ \E size \in WindowSizes : win_rect' = window_rect(size[1], size[2])
    /\ previous_agents' = agents
    /\ pc' = "for_each"
    /\ idx' = 1
    /\ ticks' = ticks + 1
    /\ UNCHANGED <<agents, locals>>

\* update(): for_each visits the next agent; after the last one the callback
\* returns.
update_for_each ==
    /\ pc = "for_each"
    /\ agents' = for_each_step(agents, previous_agents, idx, win_rect)
    /\ locals' = [self |-> idx] @@
                 Agent_update_locals(agents[idx], win_rect, previous_agents)
    /\ idx' = idx + 1
    /\ pc' = IF idx >= Len(agents) THEN "idle" ELSE "for_each"
    /\ UNCHANGED <<previous_agents, win_rect, ticks>>

Next == update_clone \/ update_for_each

Spec == Init /\ [][Next]_vars

(***************************************************************************)
(* Properties                                                                *)
(***************************************************************************)
\* Agent i has been visited by the running (or last) update callback.
Updated(i) == ticks > 0 /\ (pc = "idle" \/ i < idx)

\* An update callback has run to its end and none is running.
TickDone == ticks > 0 /\ pc = "idle"

\* The position the agent reaches by `position += velocity`, before the wrap.
Translated(agent) == vadd(agent.position, agent.velocity)

\* The pool after for_each has visited the agents in the given order.
RECURSIVE ForEachInOrder(_, _, _, _)
ForEachInOrder(order, pool, previous, rect) ==
    IF order = <<>> THEN pool
    ELSE ForEachInOrder(Tail(order),
                        for_each_step(pool, previous, Head(order), rect),
                        previous, rect)

\* C1: within one update callback every agent's new state is computed from its
\* own pre-tick state and the pre-tick clone only, and the pool the callback
\* leaves is the same for every order in which the agents could be visited.
C1_SnapshotOnly ==
    /\ \A i \in 1..NUM_AGENTS :
          Updated(i) =>
              agents[i] = Agent_update(previous_agents[i], win_rect, previous_agents)
    /\ TickDone =>
          \A order \in Permutations(1..NUM_AGENTS) :
              ForEachInOrder(order, previous_agents, previous_agents, win_rect) = agents

\* C1 witness: a finished callback in which agent 2 saw agent 1 as a neighbour
\* and would have computed another state from agent 1's already updated entry.
C1_Witness ==
    /\ TickDone
    /\ InRange(distance(agents[2].position, previous_agents[1].position))
    /\ ~IsNaNVec(agents[2].velocity)
    /\ agents[1] # previous_agents[1]
    /\ Agent_update(previous_agents[2], win_rect,
                    [previous_agents EXCEPT ![1] = agents[1]]) # agents[2]

\* A finite coordinate within [lo, hi].
Within(c, lo, hi) == ~c.nan /\ lo <= c.v /\ c.v <= hi

InBounds(p, rect) ==
    /\ Within(p.x, rect.left, rect.right)
    /\ Within(p.y, rect.bottom, rect.top)

\* C2: after initialization and after every update callback every agent's
\* position lies within the window rectangle supplied to that callback.
C2_PositionInBounds ==
    \A i \in 1..NUM_AGENTS :
        (ticks = 0 \/ Updated(i)) => InBounds(agents[i].position, win_rect)

\* The squared magnitude of a finite vector, in squared units.
Mag2(a) == a.x.v * a.x.v + a.y.v * a.y.v

\* The magnitude is SPEED up to the rounding of the last two operations
\* (two units of magnitude).
HasSpeed(a) ==
    /\ ~IsNaNVec(a)
    /\ Abs(Mag2(a) - SPEED.v * SPEED.v) <= 4 * SPEED.v

\* C3: after initialization and after every update every agent's velocity has
\* magnitude SPEED.
C3_SpeedExact == \A i \in 1..NUM_AGENTS : HasSpeed(agents[i].velocity)

\* Every position and velocity of the pool is a defined number.
Defined(pool) ==
    \A j \in 1..Len(pool) :
        ~IsNaNVec(pool[j].position) /\ ~IsNaNVec(pool[j].velocity)

\* No other agent of the clone is within DETECTION_RADIUS of agent i, neither
\* of its pre-tick position nor of the position it moved to.
Isolated(i) ==
    \A j \in (1..NUM_AGENTS) \ {i} :
        /\ ~flt(distance(previous_agents[i].position, previous_agents[j].position),
                DETECTION_RADIUS)
        /\ ~flt(distance(agents[i].position, previous_agents[j].position),
                DETECTION_RADIUS)

\* Two finite vectors point the same way, up to two units of rounding across.
SameDirection(a, b) ==
    /\ ~IsNaNVec(a) /\ ~IsNaNVec(b)
    /\ Abs(a.x.v * b.y.v - a.y.v * b.x.v) <= 2 * SPEED.v
    /\ a.x.v * b.x.v + a.y.v * b.y.v > 0

\* C4: an update callback moves an isolated agent by exactly its prior
\* velocity (read for the move that stays inside the window; the wrap of a move
\* across an edge is C5) and leaves the direction of its velocity unchanged.
C4_IsolatedKeepsCourse ==
    \A i \in 1..NUM_AGENTS :
        (/\ Updated(i)
         /\ Isolated(i)
         /\ Defined(previous_agents))
        => /\ InBounds(Translated(previous_agents[i]), win_rect)
                => agents[i].position = Translated(previous_agents[i])
           /\ SameDirection(previous_agents[i].velocity, agents[i].velocity)

\* C5: the wrap of Agent::step sets a coordinate strictly past an edge to the
\* opposite edge and leaves a coordinate on an edge or inside unchanged.
C5_WrapExact ==
    \A i \in 1..NUM_AGENTS :
        Updated(i) =>
            LET p == Translated(previous_agents[i])
                q == agents[i].position
            IN  /\ fgt(p.x, F(win_rect.right)) => q.x = F(win_rect.left)
                /\ flt(p.x, F(win_rect.left)) => q.x = F(win_rect.right)
                /\ fgt(p.y, F(win_rect.top)) => q.y = F(win_rect.bottom)
                /\ flt(p.y, F(win_rect.bottom)) => q.y = F(win_rect.top)
                /\ Within(p.x, win_rect.left, win_rect.right) => q.x = p.x
                /\ Within(p.y, win_rect.bottom, win_rect.top) => q.y = p.y

\* C5 witness: an updated agent that stepped past the right edge and reappeared
\* on the left edge while its y coordinate, inside the window, was kept.
C5_Witness ==
    \E i \in 1..NUM_AGENTS :
        /\ Updated(i)
        /\ fgt(Translated(previous_agents[i]).x, F(win_rect.right))
        /\ agents[i].position.x = F(win_rect.left)
        /\ win_rect.left < win_rect.right
        /\ Within(Translated(previous_agents[i]).y, win_rect.bottom, win_rect.top)
        /\ agents[i].position.y = Translated(previous_agents[i]).y

\* C6: the pool always holds NUM_AGENTS agents, and an update callback writes
\* only the index it visits: the agents not yet visited are those of the clone.
C6_PopulationConstant ==
    /\ Len(agents) = NUM_AGENTS
    /\ Len(previous_agents) = NUM_AGENTS
    /\ \A j \in 1..NUM_AGENTS :
          (ticks > 0 /\ ~Updated(j)) => agents[j] = previous_agents[j]

\* C6 witness: a second callback has finished, has changed the agents, and the
\* pool has its size.
C6_Witness ==
    /\ TickDone
    /\ ticks >= 2
    /\ Len(agents) = NUM_AGENTS
    /\ \A i \in 1..NUM_AGENTS : agents[i] # previous_agents[i]

\* C7: no undefined (NaN) velocity is ever stored in the pool.
C7_NoNaNVelocity == \A i \in 1..NUM_AGENTS : ~IsNaNVec(agents[i].velocity)

\* A rectangle of zero area.
Degenerate(rect) == rect.left = rect.right \/ rect.bottom = rect.top

\* C8: an update callback given a zero-area window rectangle moves no agent and
\* leaves the pool as it was.
C8_DegenerateRejected ==
    (ticks > 0 /\ Degenerate(win_rect)) => agents = previous_agents

\* The pool without its entry i.
Without(pool, i) ==
    [j \in 1..(Len(pool) - 1) |-> IF j < i THEN pool[j] ELSE pool[j + 1]]

\* No two agents of the pool occupy the same point.
NoCoincident(pool) ==
    \A j, k \in 1..Len(pool) : j # k => pool[j].position # pool[k].position

\* C9: provided no two agents of the clone coincide, the agent's own entry adds
\* nothing to the neighbour count, the sums or the separation nudge: the loop
\* leaves what it would leave over the other agents alone.
C9_NeverCountsItself ==
    (/\ locals.self # 0
     /\ NoCoincident(previous_agents)
     /\ Defined(previous_agents)) =>
        locals.sums = NeighborLoop(locals.position,
                                   Without(previous_agents, locals.self),
                                   1, NoNeighbors)

\* C10: for two neighbours closer than MIN_DISTANCE and the same accumulator,
\* the push for the closer one is at least as large as for the farther one.
C10_CloserPushesHarder ==
    (locals.self # 0 /\ Defined(previous_agents)) =>
        \A j, k, m \in 1..NUM_AGENTS :
            LET dj == distance(locals.position, previous_agents[j].position)
                dk == distance(locals.position, previous_agents[k].position)
                acc == previous_agents[m].velocity
            IN  (fgt(dj, F(0)) /\ flt(dj, dk) /\ flt(dk, MIN_DISTANCE))
                => Mag2(SeparationPush(acc, dj)) >= Mag2(SeparationPush(acc, dk))

====
